---- MODULE Spec2Model ----
(***************************************************************************)
(* The PlayStation memory card reader driver of nbd/memory_card_reader.py  *)
(* (class PlayStationMemoryCardReader) as a state machine.                 *)
(*                                                                         *)
(* The driver is single threaded and synchronous: a public call (read,     *)
(* write, authenticate) is a sequence of command exchanges with the USB    *)
(* adapter, each one bulk write followed by the bulk reads of its          *)
(* response.  A state of the model is a point where the driver is about to *)
(* send a command (or has returned); one step is one exchange followed by  *)
(* the Python code that runs up to the next command or to the end of the   *)
(* call.  The adapter and the answer-computing collaborator are external:  *)
(* their answers are chosen nondeterministically.  Byte strings are        *)
(* sequences of integers 0..255.                                           *)
(***************************************************************************)
EXTENDS Integers, Sequences, FiniteSets, TLC

\* ------------------------------------------------------------ constants
BULK_READ_LENGTH == 64
COMMAND_CODE == 170
COMMAND_TYPE_LONG == 66
RESPONSE_CODE == 85
RESPONSE_STATUS_SUCCES == 90
STATUS_AF == 175
PS2_CARD_TYPE == 2
PAGE_LENGTH == 528
PS2_CARD_SIZE == 8651280
PS1_CARD_TYPE == 1
FRAME_LENGTH == 128
PS1_CARD_SIZE == 131072
PS1_TAIL_LENGTH == 134
\* unpack('<h', ...) reads the declared length as a signed 16 bit number
SIGNED_LENGTH_LIMIT == 32768

\* ------------------------------------------------------------ bounds
\* offsets and lengths are sampled within EdgeSlack bytes of a block edge
EdgeSlack == 1
\* the longest sampled transfer spans MaxSpan whole blocks
MaxSpan == 2
\* restarts of the handshake are counted up to MaxTimeouts (then saturate)
MaxTimeouts == 2
\* the adapter drops an established authentication at most MaxExpiry times
\* during one call
MaxExpiry == 1
\* the packets of the longest sampled long response
MaxPackets == 3

\* ------------------------------------------------------------ byte strings
Min(a, b) == IF a < b THEN a ELSE b
Max(a, b) == IF a > b THEN a ELSE b

Zeros(n) == [i \in 1..n |-> 0]
Fill(n, b) == [i \in 1..n |-> b]

\* Python s[:k] and s[k:] (k may be negative)
PyTo(s, k) ==
    IF k >= 0 THEN SubSeq(s, 1, Min(k, Len(s)))
    ELSE SubSeq(s, 1, Max(0, Len(s) + k))
PyFrom(s, k) ==
    IF k >= 0 THEN SubSeq(s, Min(k, Len(s)) + 1, Len(s))
    ELSE SubSeq(s, Max(0, Len(s) + k) + 1, Len(s))
\* Python s[a:b] with a >= 0
PySlice(s, a, b) == PyFrom(PyTo(s, b), a)

RECURSIVE BytesJoin(_)
\* b''.join(parts)
BytesJoin(parts) ==
    IF parts = <<>> THEN <<>> ELSE Head(parts) \o BytesJoin(Tail(parts))

\* struct.pack('<h', n) for 0 <= n < 2^15, struct.unpack('<h', b)
PackLE16(n) == <<n % 256, (n \div 256) % 256>>
UnpackLE16(b) ==
    LET u == b[1] + 256 * b[2]
    IN  IF u >= SIGNED_LENGTH_LIMIT THEN u - 2 * SIGNED_LENGTH_LIMIT ELSE u
\* struct.pack('>H', n)
PackBE16(n) == <<(n \div 256) % 256, n % 256>>
UnpackBE16(b) == 256 * b[1] + b[2]
\* struct.pack('<I', n)
PackLE32(n) ==
    <<n % 256, (n \div 256) % 256, (n \div 65536) % 256, (n \div 16777216) % 256>>
UnpackLE32(b) == b[1] + 256 * b[2] + 65536 * b[3] + 16777216 * b[4]

\* ------------------------------------------------------------ geometry
\* CARD_SIZE_DICT.get and CARD_PAGE_DICT.get: -1 stands for None
_getSize(card_type) ==
    CASE card_type = PS1_CARD_TYPE -> PS1_CARD_SIZE
      [] card_type = PS2_CARD_TYPE -> PS2_CARD_SIZE
      [] OTHER -> -1

_getPageSize(card_type) ==
    CASE card_type = PS1_CARD_TYPE -> FRAME_LENGTH
      [] card_type = PS2_CARD_TYPE -> PAGE_LENGTH
      [] OTHER -> -1

\* ------------------------------------------------------------ frame codec
_padCommand(command, padding) == command \o Zeros(padding)

\* _stripResponse: [ok, body]; ok is the assertion on the stuffing
_stripResponse(response, padding) ==
    LET stuffing == PyTo(response, -padding)
    IN  [ok |-> \A i \in 1..Len(stuffing) : stuffing[i] = 255,
         body |-> PyFrom(response, -padding)]

_commandWrite(data) == <<COMMAND_CODE>> \o data

_longCommandWrite(data) ==
    _commandWrite(<<COMMAND_TYPE_LONG>> \o PackLE16(Len(data)) \o data)

\* a _responseRead that takes any packet for a response
_responseRead_unchecked(q) ==
    IF q = <<>> THEN [err |-> "TransportError", body |-> <<>>, rest |-> q]
    ELSE [err |-> "", body |-> PyFrom(Head(q), 1), rest |-> Tail(q)]

\* _responseRead on the packet queue q: [err, body, rest]
_responseRead(q) ==
    IF q = <<>> THEN [err |-> "TransportError", body |-> <<>>, rest |-> q]
    ELSE IF PySlice(Head(q), 0, 1) # <<RESPONSE_CODE>>
         THEN [err |-> "FramingError", body |-> <<>>, rest |-> Tail(q)]
         ELSE [err |-> "", body |-> PyFrom(Head(q), 1), rest |-> Tail(q)]

RECURSIVE ReadMore(_, _, _, _)
\* the while loop of _longResponseRead: [err, data, rest, reads]
ReadMore(q, data, response_length, reads) ==
    IF Len(data) < response_length
    THEN IF q = <<>>
         THEN [err |-> "TransportError", data |-> data, rest |-> q, reads |-> reads]
         ELSE ReadMore(Tail(q), data \o Head(q), response_length, reads + 1)
    ELSE [err |-> "", data |-> data, rest |-> q, reads |-> reads]

\* _longResponseRead on the packet queue q: [err, code, data, rest, reads]
_longResponseRead(q) ==
    LET first == _responseRead(q)
        response == first.body
        response_code == PySlice(response, 0, 1)
    IN  IF first.err # ""
        THEN [err |-> first.err, code |-> <<>>, data |-> <<>>,
              rest |-> first.rest, reads |-> IF q = <<>> THEN 0 ELSE 1]
        ELSE IF response_code = <<RESPONSE_STATUS_SUCCES>>
        THEN IF Len(response) < 3
             THEN [err |-> "StructError", code |-> response_code, data |-> <<>>,
                   rest |-> first.rest, reads |-> 1]
             ELSE LET more == ReadMore(first.rest, PyFrom(response, 3),
                                       UnpackLE16(PySlice(response, 1, 3)), 1)
                  IN  [err |-> more.err, code |-> response_code,
                       data |-> more.data, rest |-> more.rest,
                       reads |-> more.reads]
        ELSE [err |-> "", code |-> response_code, data |-> <<>>,
              rest |-> first.rest, reads |-> 1]

\* ------------------------------------------------------------ command set
\* Each command is split in the bytes it sends (..._cmd) and what it makes
\* of the response lr read by _longResponseRead (..._res): [err, val].
Ok(v) == [err |-> "", val |-> v]
Raise(e) == [err |-> e, val |-> <<>>]

getCardType_cmd == _commandWrite(<<64>>)
getCardType_res(q) ==
    LET r == _responseRead(q)
    IN  IF r.err # "" THEN Raise(r.err)
        ELSE IF Len(r.body) # 1 THEN Raise("AssertionError")
        ELSE Ok(r.body[1])

isAuthenticated_cmd == _longCommandWrite(_padCommand(<<129, 17>>, 2))
isAuthenticated_res(lr) ==
    IF lr.err # "" THEN Raise(lr.err)
    ELSE IF lr.code = <<STATUS_AF>> THEN Ok(FALSE)
    ELSE IF lr.code # <<RESPONSE_STATUS_SUCCES>> THEN Raise("AssertionError")
    ELSE LET r == _stripResponse(lr.data, 2)
         IN  IF r.ok /\ r.body = <<43, 85>> THEN Ok(TRUE)
             ELSE Raise("AssertionError")

readFrame_cmd(frame_number) ==
    _longCommandWrite(<<129, 82, 0, 0>> \o PackBE16(frame_number)
                      \o Zeros(PS1_TAIL_LENGTH))
readFrame_res(lr) ==
    IF lr.err # "" THEN Raise(lr.err)
    ELSE IF lr.code # <<RESPONSE_STATUS_SUCCES>> THEN Raise("AssertionError")
    ELSE LET data == PySlice(lr.data, 10, -2)
         IN  IF Len(data) = FRAME_LENGTH THEN Ok(data)
             ELSE Raise("AssertionError")

readPage_cmd(page_number) ==
    _commandWrite(<<82, 3>> \o PackLE32(page_number) \o <<85, 43>>)
readPage_res(lr) ==
    IF lr.err # "" THEN Raise(lr.err)
    ELSE IF lr.code # <<RESPONSE_STATUS_SUCCES>> THEN Raise("AssertionError")
    ELSE IF Len(lr.data) = PAGE_LENGTH THEN Ok(lr.data)
    ELSE Raise("AssertionError")

\* ''.join(parts) of str: every item must be a str, and the items built
\* by writeFrame and writePage are bytes objects, so the join raises.
StrJoin(parts) ==
    IF parts = <<>> THEN Ok(<<>>) ELSE Raise("TypeError")

\* a writeFrame that joins its parts as bytes and addresses the frame after
\* the one it was given
writeFrame_cmd_next_frame(frame_number, data) ==
    IF Len(data) # FRAME_LENGTH THEN Raise("AssertionError")
    ELSE Ok(_longCommandWrite(
                BytesJoin(<<(<<129, 87, 90, 93>>), PackBE16(frame_number + 1),
                            data, <<0>>, <<92, 93, 71>>>>)))

\* writeFrame up to the command it would send: [err, val]
writeFrame_cmd(frame_number, data) ==
    IF Len(data) # FRAME_LENGTH THEN Raise("AssertionError")
    ELSE LET joined == StrJoin(<<(<<129, 87, 90, 93>>), PackBE16(frame_number),
                                 data, <<0>>, <<92, 93, 71>>>>)
         IN  IF joined.err # "" THEN joined
             ELSE Ok(_longCommandWrite(joined.val))
writeFrame_res(lr, frame_number, data) ==
    IF lr.err # "" THEN Raise(lr.err)
    ELSE IF lr.code # <<RESPONSE_STATUS_SUCCES>> THEN Raise("AssertionError")
    ELSE IF PySlice(lr.data, 0, 4) # <<255, 0, 90, 93>> THEN Raise("AssertionError")
    ELSE IF Len(lr.data) < 5 THEN Raise("IndexError")
    ELSE IF lr.data[5] # 0 THEN Raise("AssertionError")
    ELSE IF PySlice(lr.data, 5, 7) # PackBE16(frame_number)
         THEN Raise("AssertionError")
    ELSE IF PySlice(lr.data, 7, -3) # data THEN Raise("AssertionError")
    ELSE Ok(<<>>)

\* writePage after authenticate() has returned: [err, val]
writePage_cmd(page_number, data) ==
    LET joined == StrJoin(<<(<<87, 3>>), PackLE32(page_number), data,
                            <<85, 43>>>>)
    IN  IF joined.err # "" THEN joined ELSE Ok(_commandWrite(joined.val))
writePage_res(q) ==
    LET r == _responseRead(q)
    IN  IF r.err # "" THEN Raise(r.err)
        ELSE IF Len(r.body) # 1 THEN Raise("AssertionError")
        ELSE IF r.body # <<RESPONSE_STATUS_SUCCES>> THEN Raise("AssertionError")
        ELSE Ok(<<>>)

\* a Success response with its stuffing checked and stripped: [err, val]
Stripped(lr, padding) ==
    IF lr.err # "" THEN Raise(lr.err)
    ELSE IF lr.code # <<RESPONSE_STATUS_SUCCES>> THEN Raise("AssertionError")
    ELSE LET r == _stripResponse(lr.data, padding)
         IN  IF r.ok THEN Ok(r.body) ELSE Raise("AssertionError")

\* assert response == expected
Expect(r, expected) ==
    IF r.err # "" THEN r
    ELSE IF r.val = expected THEN r ELSE Raise("AssertionError")

\* assert response[0] == first and response[-1] == last
ExpectEdges(r, first, last) ==
    IF r.err # "" THEN r
    ELSE IF r.val = <<>> THEN Raise("IndexError")
    ELSE IF r.val[1] = first /\ r.val[Len(r.val)] = last THEN r
    ELSE Raise("AssertionError")

__81f0_cmd(seq_number) ==
    _longCommandWrite(_padCommand(<<129, 240, seq_number>>, 2))
\* __81f0 returns whether the status is Success; authenticate uses the
\* result of seq 5 only
__81f0_res(lr) ==
    IF lr.err # "" THEN Raise(lr.err)
    ELSE IF lr.code # <<RESPONSE_STATUS_SUCCES>> THEN Ok(FALSE)
    ELSE LET r == Expect(Stripped(lr, 2), <<43, 255>>)
         IN  IF r.err # "" THEN r ELSE Ok(TRUE)

__recv_81f0_cmd(seq_number, length) ==
    _longCommandWrite(_padCommand(<<129, 240, seq_number>>, length + 2))
__recv_81f0_res(lr, length) ==
    LET r == ExpectEdges(Stripped(lr, length + 2), 43, 255)
    IN  IF r.err # "" THEN r ELSE Ok(PySlice(r.val, 1, -1))

__send_81f0_cmd(seq_number, data) ==
    IF Len(data) # 9 THEN Raise("AssertionError")
    ELSE Ok(_longCommandWrite(_padCommand(<<129, 240, seq_number>> \o data, 2)))
__send_81f0_res(lr) == Expect(Stripped(lr, 2), <<43, 255>>)

__8128_cmd == _longCommandWrite(_padCommand(<<129, 40>>, 3))
__8128_res(lr) == Expect(Stripped(lr, 3), <<43, 255, 255>>)

__8127_cmd == _longCommandWrite(_padCommand(<<129, 39, 85>>, 2))
__8127_res(lr) == Expect(Stripped(lr, 2), <<43, 85>>)

__8126_cmd == _longCommandWrite(_padCommand(<<129, 38>>, 11))
__8126_res(lr) ==
    LET r == ExpectEdges(Stripped(lr, 11), 43, 85)
    IN  IF r.err # "" THEN r ELSE Ok(PySlice(r.val, 1, -1))

__81f3_cmd == _longCommandWrite(_padCommand(<<129, 243, 0>>, 2))
__81f3_res(lr) == Expect(Stripped(lr, 2), <<43, 255>>)

__81f7_cmd == _longCommandWrite(_padCommand(<<129, 247, 1>>, 2))
__81f7_res(lr) == Expect(Stripped(lr, 2), <<43, 255>>)

\* ------------------------------------------------------------ the adapter
\* The adapter is outside the repository; it is modelled as the
\* counterpart the driver's checks expect.  A card holds the bytes
\* a % 251 at address a until a block is written.
DefaultBlock(i, bs) == [j \in 1..bs |-> (i * bs + j - 1) % 251]
BlockOf(st, i, bs) == IF i \in DOMAIN st THEN st[i] ELSE DefaultBlock(i, bs)
StoreBlock(st, i, blk) == [j \in DOMAIN st \cup {i} |-> IF j = i THEN blk ELSE st[j]]

\* a raw response cut in bulk packets of at most BULK_READ_LENGTH bytes
Packets(raw) ==
    [k \in 1..((Len(raw) + BULK_READ_LENGTH - 1) \div BULK_READ_LENGTH) |->
        SubSeq(raw, (k - 1) * BULK_READ_LENGTH + 1,
               Min(k * BULK_READ_LENGTH, Len(raw)))]
LongResponse(payload) ==
    Packets(<<RESPONSE_CODE, RESPONSE_STATUS_SUCCES>> \o PackLE16(Len(payload))
            \o payload)
StatusResponse(status) == <<(<<RESPONSE_CODE, status>>)>>
BadMarkerResponse == <<(<<0, RESPONSE_STATUS_SUCCES>>)>>

\* the two random numbers the adapter issues most of the time
Seeds == {Fill(9, 17), Fill(9, 34)}
\* the sequence numbers of the 0x81F0 commands that return a 9 byte block
RecvSeqs == {1, 2, 4, 15, 17, 19}

LongPayload(cmd) == SubSeq(cmd, 5, Len(cmd))
\* what a command is, as the adapter decodes it from the bytes on the wire
CmdTag(cmd) ==
    IF cmd[2] = COMMAND_TYPE_LONG
    THEN LET pl == LongPayload(cmd)
         IN  CASE pl[2] = 240 -> <<129, 240, pl[3]>>
               [] pl[2] = 82 -> <<129, 82, UnpackBE16(SubSeq(pl, 5, 6))>>
               [] pl[2] = 87 -> <<129, 87, UnpackBE16(SubSeq(pl, 5, 6))>>
               [] OTHER -> <<129, pl[2]>>
    ELSE IF cmd[2] = 64 THEN <<64>>
    ELSE <<cmd[2], cmd[3], UnpackLE32(SubSeq(cmd, 4, 7))>>

Answer(pkts, au, st, ev) == [pkts |-> pkts, authed |-> au, stored |-> st, ev |-> ev]

\* the answers the adapter may give to cmd: the packets, its state after
\* the command, and what kind of answer it is
DeviceAnswers(cmd, ct, st, au, expiries) ==
    LET tag == CmdTag(cmd)
        pl == LongPayload(cmd)
        stuffed(body) == LongResponse(Fill(Len(pl) - Len(body), 255) \o body)
        fault == {Answer(BadMarkerResponse, au, st, "fault")}
        afFault == {Answer(StatusResponse(STATUS_AF), au, st, "badstatus")}
    IN  CASE tag = <<64>> ->
               {Answer(<<(<<RESPONSE_CODE, ct>>)>>, au, st, "nominal")} \cup fault
          [] tag = <<129, 17>> ->
               (IF au
                THEN {Answer(stuffed(<<43, 85>>), au, st, "nominal")}
                     \cup (IF expiries < MaxExpiry
                           THEN {Answer(StatusResponse(STATUS_AF), FALSE, st,
                                        "expiry")}
                           ELSE {})
                ELSE {Answer(StatusResponse(STATUS_AF), au, st, "nominal")})
               \cup fault
          [] tag[1] = 129 /\ tag[2] = 82 ->
               {Answer(LongResponse(<<255, 0, 90, 93, 0, 0, 92, 93>>
                           \o PackBE16(tag[3])
                           \o BlockOf(st, tag[3], FRAME_LENGTH) \o <<0, 71>>),
                       au, st, "nominal")} \cup fault \cup afFault
          [] tag[1] = 129 /\ tag[2] = 87 ->
               LET data == SubSeq(pl, 7, 6 + FRAME_LENGTH)
               IN  {Answer(LongResponse(<<255, 0, 90, 93, 0>> \o PackBE16(tag[3])
                               \o data \o <<92, 93, 71>>),
                           au, StoreBlock(st, tag[3], data), "nominal")}
                   \cup fault \cup afFault
          [] tag[1] = 82 ->
               (IF au
                THEN {Answer(LongResponse(BlockOf(st, tag[3], PAGE_LENGTH)),
                             au, st, "nominal")} \cup afFault
                ELSE {Answer(StatusResponse(STATUS_AF), au, st, "nominal")})
               \cup fault
          [] tag[1] = 87 ->
               (IF au
                THEN {Answer(StatusResponse(RESPONSE_STATUS_SUCCES), au,
                             StoreBlock(st, tag[3], SubSeq(cmd, 8, 7 + PAGE_LENGTH)),
                             "nominal")} \cup afFault
                ELSE {Answer(StatusResponse(STATUS_AF), au, st, "nominal")})
               \cup fault
          [] tag[1] = 129 /\ tag[2] = 240 /\ tag[3] = 4 ->
               {Answer(stuffed(<<43>> \o seed \o <<255>>), au, st, "nominal") :
                   seed \in Seeds} \cup fault \cup afFault
          [] tag[1] = 129 /\ tag[2] = 240 /\ tag[3] = 5 ->
               {Answer(stuffed(<<43, 255>>), au, st, "nominal"),
                Answer(StatusResponse(STATUS_AF), au, st, "timeout")} \cup fault
          [] tag[1] = 129 /\ tag[2] = 240 /\ tag[3] \in RecvSeqs \ {4} ->
               {Answer(stuffed(<<43>> \o Fill(9, tag[3]) \o <<255>>), au, st,
                       "nominal")} \cup fault \cup afFault
          [] tag[1] = 129 /\ tag[2] = 240 /\ tag[3] \notin RecvSeqs \cup {5} ->
               {Answer(stuffed(<<43, 255>>), au, st, "nominal")}
               \cup fault \cup afFault
          [] tag = <<129, 243>> \/ tag = <<129, 247>> ->
               {Answer(stuffed(<<43, 255>>), au, st, "nominal")}
               \cup fault \cup afFault
          [] tag = <<129, 40>> ->
               {Answer(stuffed(<<43, 255, 255>>), au, st, "nominal")}
               \cup fault \cup afFault
          [] tag = <<129, 39>> ->
               {Answer(stuffed(<<43, 85>>), au, st, "nominal")}
               \cup fault \cup afFault
          [] tag = <<129, 38>> ->
               {Answer(stuffed(<<43>> \o Fill(9, 0) \o <<85>>), TRUE, st, "nominal"),
                Answer(stuffed(<<43>> \o Fill(9, 0) \o <<85>>), FALSE, st, "reject")}
               \cup fault \cup afFault
          [] OTHER -> fault

\* the random number carried by the adapter's answer to getRandomNumber
IssuedSeed(pkts) ==
    LET raw == BytesJoin(pkts) IN SubSeq(raw, Len(raw) - 9, Len(raw) - 1)

\* the answer-computing collaborator: three 9 byte blocks from the seed
Authenticator(seed) ==
    << [i \in 1..9 |-> (seed[i] + 1) % 256],
       [i \in 1..9 |-> (seed[i] + 2) % 256],
       [i \in 1..9 |-> (seed[i] + 3) % 256] >>

\* ------------------------------------------------------------ state
VARIABLES
    call,       \* the public call in progress: its arguments, locals, position
    cardType,   \* adapter: the card type it reports
    stored,     \* adapter: the blocks written to the card, by block number
    authed,     \* adapter: whether it grants full access
    log,        \* history: the commands sent during the call, as CmdTag
    obs,        \* history: what the adapter did during the call, and the
                \* bulk reads of the last exchange
    wire        \* a long response on its way through _longResponseRead

vars == <<call, cardType, stored, authed, log, obs, wire>>

NoWire == [pc |-> "none", n |-> 0, pkts |-> <<>>, err |-> "", code |-> <<>>,
           data |-> <<>>, reads |-> 0]

NoCall ==
    [op |-> "none", pc |-> "idle", offset |-> 0, length |-> 0, data |-> <<>>,
     prev |-> <<>>, follows |-> <<>>, card_type |-> 0, block_length |-> 0, current_block |-> 0,
     start_offset |-> 0, result |-> <<>>, result_len |-> 0, to_write |-> <<>>,
     astep |-> 0, after |-> "", ret |-> "", seed |-> <<>>, answer_list |-> <<>>,
     restarts |-> 0, authCalls |-> 0, outcome |-> "", retval |-> <<>>,
     stored0 |-> <<>>]

NoObs == [fault |-> FALSE, rejected |-> FALSE, expiries |-> 0, afAt5 |-> 0,
          last |-> "", reads |-> 0, reported |-> -1, issued |-> <<>>]

\* raise / return of the public call
Fail(c, kind) == [c EXCEPT !.pc = "done", !.outcome = kind]
Finish(c, value) == [c EXCEPT !.pc = "done", !.outcome = "ok", !.retval = value]

\* ------------------------------------------------------------ authenticate
\* a handshake that sends its first answer before the acknowledgement step
HandshakeSteps_answer_first ==
    << [k |-> "f3", seq |-> 0],  [k |-> "f7", seq |-> 0],
       [k |-> "p", seq |-> 0],   [k |-> "r", seq |-> 1],
       [k |-> "r", seq |-> 2],   [k |-> "p", seq |-> 3],
       [k |-> "r", seq |-> 4],   [k |-> "s", seq |-> 6],
       [k |-> "p", seq |-> 5],   [k |-> "s", seq |-> 7],
       [k |-> "p", seq |-> 8],   [k |-> "p", seq |-> 9],
       [k |-> "p", seq |-> 10],  [k |-> "s", seq |-> 11],
       [k |-> "p", seq |-> 12],  [k |-> "p", seq |-> 13],
       [k |-> "p", seq |-> 14],  [k |-> "r", seq |-> 15],
       [k |-> "p", seq |-> 16],  [k |-> "r", seq |-> 17],
       [k |-> "p", seq |-> 18],  [k |-> "r", seq |-> 19],
       [k |-> "p", seq |-> 20],  [k |-> "8128", seq |-> 0],
       [k |-> "8127", seq |-> 0], [k |-> "8126", seq |-> 0] >>

\* The handshake of one pass of the while loop, in order: the command kind
\* and its sequence number.  Position 0 is the isAuthenticated() of the
\* loop condition, position VerifyStep the isAuthenticated() that ends the
\* pass.
HandshakeSteps ==
    << [k |-> "f3", seq |-> 0],  [k |-> "f7", seq |-> 0],
       [k |-> "p", seq |-> 0],   [k |-> "r", seq |-> 1],
       [k |-> "r", seq |-> 2],   [k |-> "p", seq |-> 3],
       [k |-> "r", seq |-> 4],   [k |-> "p", seq |-> 5],
       [k |-> "s", seq |-> 6],   [k |-> "s", seq |-> 7],
       [k |-> "p", seq |-> 8],   [k |-> "p", seq |-> 9],
       [k |-> "p", seq |-> 10],  [k |-> "s", seq |-> 11],
       [k |-> "p", seq |-> 12],  [k |-> "p", seq |-> 13],
       [k |-> "p", seq |-> 14],  [k |-> "r", seq |-> 15],
       [k |-> "p", seq |-> 16],  [k |-> "r", seq |-> 17],
       [k |-> "p", seq |-> 18],  [k |-> "r", seq |-> 19],
       [k |-> "p", seq |-> 20],  [k |-> "8128", seq |-> 0],
       [k |-> "8127", seq |-> 0], [k |-> "8126", seq |-> 0] >>
VerifyStep == Len(HandshakeSteps) + 1

\* which answer block a send step carries
AnswerIndex(seq) == CASE seq = 6 -> 1 [] seq = 7 -> 2 [] OTHER -> 3

\* the command of position i of authenticate: [err, val]
authenticate_cmd(c, i) ==
    IF i = 0 \/ i = VerifyStep THEN Ok(isAuthenticated_cmd)
    ELSE LET st == HandshakeSteps[i]
         IN  CASE st.k = "f3" -> Ok(__81f3_cmd)
               [] st.k = "f7" -> Ok(__81f7_cmd)
               [] st.k = "p" -> Ok(__81f0_cmd(st.seq))
               [] st.k = "r" -> Ok(__recv_81f0_cmd(st.seq, 9))
               [] st.k = "s" ->
                    __send_81f0_cmd(st.seq, c.answer_list[AnswerIndex(st.seq)])
               [] st.k = "8128" -> Ok(__8128_cmd)
               [] st.k = "8127" -> Ok(__8127_cmd)
               [] st.k = "8126" -> Ok(__8126_cmd)

\* move to position i of authenticate
authenticate_goto(c, i) ==
    LET cmd == authenticate_cmd(c, i)
    IN  IF cmd.err # "" THEN Fail(c, cmd.err)
        ELSE [c EXCEPT !.pc = "auth", !.astep = i]

\* an authenticate() that starts the handshake without asking first
authenticate_enter_handshake_first(c) == authenticate_goto(c, 1)

\* authenticate() is entered: the while condition is evaluated
authenticate_enter(c) == authenticate_goto(c, 0)

\* authenticate() has returned to its caller
authenticate_return(c) ==
    CASE c.after = "readPage" -> [c EXCEPT !.pc = "readPage"]
      [] c.after = "writePage" ->
           LET w == writePage_cmd(c.current_block, c.to_write)
           IN  IF w.err # "" THEN Fail(c, w.err)
               ELSE [c EXCEPT !.pc = "writePage"]
      [] OTHER -> Finish(c, <<>>)

\* a timeout that resumes at 0x81F3 without evaluating the while condition
authenticate_restart_no_probe(c) ==
    authenticate_goto(
        [c EXCEPT !.restarts = Min(@ + 1, MaxTimeouts), !.seed = <<>>,
                  !.answer_list = <<>>], 1)

\* the `continue` of the timeout at seq 5
authenticate_restart(c) ==
    authenticate_goto(
        [c EXCEPT !.restarts = Min(@ + 1, MaxTimeouts), !.seed = <<>>,
                  !.answer_list = <<>>], 0)

\* a verification that starts another pass when the adapter says no
authenticate_verified_retry(c, isauth) ==
    authenticate_goto([c EXCEPT !.seed = <<>>, !.answer_list = <<>>], 0)

\* the isAuthenticated() that ends a pass has answered
authenticate_verified(c, isauth) ==
    IF isauth
    THEN authenticate_goto([c EXCEPT !.seed = <<>>, !.answer_list = <<>>], 0)
    ELSE Fail(c, "AuthenticationFailed")

\* one exchange of authenticate() with the response packets q
authenticate_step(c, q) ==
    LET lr == _longResponseRead(q)
        i == c.astep
    IN  IF i = 0
        THEN LET r == isAuthenticated_res(lr)
             IN  IF r.err # "" THEN Fail(c, r.err)
                 ELSE IF r.val THEN authenticate_return(c)
                 ELSE authenticate_goto(c, 1)
        ELSE IF i = VerifyStep
        THEN LET r == isAuthenticated_res(lr)
             IN  IF r.err # "" THEN Fail(c, r.err)
                 ELSE authenticate_verified(c, r.val)
        ELSE LET st == HandshakeSteps[i]
                 r == CASE st.k = "f3" -> __81f3_res(lr)
                        [] st.k = "f7" -> __81f7_res(lr)
                        [] st.k = "p" -> __81f0_res(lr)
                        [] st.k = "r" -> __recv_81f0_res(lr, 9)
                        [] st.k = "s" -> __send_81f0_res(lr)
                        [] st.k = "8128" -> __8128_res(lr)
                        [] st.k = "8127" -> __8127_res(lr)
                        [] st.k = "8126" -> __8126_res(lr)
             IN  IF r.err # "" THEN Fail(c, r.err)
                 ELSE IF st.k = "p" /\ st.seq = 5 /\ ~r.val
                 THEN authenticate_restart(c)
                 ELSE IF st.k = "r" /\ st.seq = 4
                 THEN authenticate_goto(
                          [c EXCEPT !.seed = r.val,
                                    !.answer_list = Authenticator(r.val),
                                    !.authCalls = Min(@ + 1, MaxTimeouts + 1)],
                          i + 1)
                 ELSE authenticate_goto(c, i + 1)

\* ------------------------------------------------------------ block I/O
\* a block read whose readPage does not call authenticate()
read_block_unauthenticated(c, ret) ==
    IF c.card_type = 1 THEN [c EXCEPT !.pc = "readFrame", !.ret = ret]
    ELSE [c EXCEPT !.pc = "readPage", !.after = "readPage", !.ret = ret]

\* read(current_block) of read() and write(): readFrame or readPage
read_block(c, ret) ==
    IF c.card_type = 1 THEN [c EXCEPT !.pc = "readFrame", !.ret = ret]
    ELSE authenticate_enter([c EXCEPT !.after = "readPage", !.ret = ret])

\* write(current_block, data) of write(): writeFrame or writePage
write_block(c, data, ret) ==
    IF c.card_type = 1
    THEN LET w == writeFrame_cmd(c.current_block, data)
         IN  IF w.err # "" THEN Fail(c, w.err)
             ELSE [c EXCEPT !.pc = "writeFrame", !.to_write = data, !.ret = ret]
    ELSE IF Len(data) # PAGE_LENGTH THEN Fail(c, "AssertionError")
    ELSE authenticate_enter([c EXCEPT !.after = "writePage", !.to_write = data,
                                      !.ret = ret])

\* an end of read() that leaves the last block whole
read_join_untrimmed(c) ==
    IF c.result = <<>> THEN Fail(c, "IndexError")
    ELSE Finish(c, BytesJoin([c.result EXCEPT ![1] = PyFrom(@, c.start_offset)]))

\* the end of read(): trim the first and the last block, join
read_join(c) ==
    IF c.result = <<>> THEN Fail(c, "IndexError")
    ELSE LET r0 == [c.result EXCEPT ![1] = PyFrom(@, c.start_offset)]
             r1 == IF c.result_len > c.length
                   THEN [r0 EXCEPT ![Len(r0)] = PyTo(@, c.length - c.result_len)]
                   ELSE r0
         IN  Finish(c, BytesJoin(r1))

\* the while loop of read()
read_loop(c) ==
    IF c.result_len < c.length THEN read_block(c, "read") ELSE read_join(c)

\* a block has been read in the loop of read()
read_got(c, data) ==
    IF Len(data) # c.block_length THEN Fail(c, "AssertionError")
    ELSE read_loop([c EXCEPT !.result_len = @ + c.block_length,
                             !.result = Append(@, data),
                             !.current_block = @ + 1])

\* a read() that keeps the geometry of a PS1 card whatever is detected
read_geometry_cached(c, card_type) ==
    IF card_type \notin {1, 2} THEN Fail(c, "UnknownCard")
    ELSE LET block_length == _getPageSize(PS1_CARD_TYPE)
             max_length == _getSize(PS1_CARD_TYPE)
         IN  IF c.offset + c.length > max_length THEN Fail(c, "OutOfRange")
             ELSE read_loop([c EXCEPT !.card_type = PS1_CARD_TYPE,
                                      !.block_length = block_length,
                                      !.current_block = c.offset \div block_length,
                                      !.start_offset = c.offset % block_length,
                                      !.result = <<>>,
                                      !.result_len = -(c.offset % block_length)])

\* a read() whose range check also refuses the range that ends at the end
\* of the card
read_geometry_ge(c, card_type) ==
    IF card_type \notin {1, 2} THEN Fail(c, "UnknownCard")
    ELSE LET block_length == _getPageSize(card_type)
             max_length == _getSize(card_type)
         IN  IF c.offset + c.length >= max_length THEN Fail(c, "OutOfRange")
             ELSE read_loop([c EXCEPT !.card_type = card_type,
                                      !.block_length = block_length,
                                      !.current_block = c.offset \div block_length,
                                      !.start_offset = c.offset % block_length,
                                      !.result = <<>>,
                                      !.result_len = -(c.offset % block_length)])

\* read() once the card type is known
read_geometry(c, card_type) ==
    IF card_type \notin {1, 2} THEN Fail(c, "UnknownCard")
    ELSE LET block_length == _getPageSize(card_type)
             max_length == _getSize(card_type)
         IN  IF c.offset + c.length > max_length THEN Fail(c, "OutOfRange")
             ELSE read_loop([c EXCEPT !.card_type = card_type,
                                      !.block_length = block_length,
                                      !.current_block = c.offset \div block_length,
                                      !.start_offset = c.offset % block_length,
                                      !.result = <<>>,
                                      !.result_len = -(c.offset % block_length)])

\* the while loop of write() and the trailing partial block
write_loop(c) ==
    IF Len(c.data) >= c.block_length
    THEN write_block([c EXCEPT !.data = PyFrom(@, c.block_length)],
                     PyTo(c.data, c.block_length), "loop")
    ELSE IF Len(c.data) # 0 THEN read_block(c, "trail")
    ELSE Finish(c, <<>>)

\* a write() that takes a card it does not know for a PS1 card
write_geometry_default_ps1(c, card_type) ==
    LET t == IF card_type = 2 THEN 2 ELSE 1
        block_length == _getPageSize(t)
        max_length == _getSize(t)
        c1 == [c EXCEPT !.card_type = t,
                        !.block_length = block_length,
                        !.current_block = c.offset \div block_length,
                        !.start_offset = c.offset % block_length]
    IN  IF c.offset + Len(c.data) > max_length THEN Fail(c, "OutOfRange")
        ELSE IF c1.start_offset # 0 THEN read_block(c1, "lead")
        ELSE write_loop(c1)

\* write() once the card type is known
write_geometry(c, card_type) ==
    IF card_type \notin {1, 2} THEN Fail(c, "UnknownCard")
    ELSE LET block_length == _getPageSize(card_type)
             max_length == _getSize(card_type)
             c1 == [c EXCEPT !.card_type = card_type,
                             !.block_length = block_length,
                             !.current_block = c.offset \div block_length,
                             !.start_offset = c.offset % block_length]
         IN  IF c.offset + Len(c.data) > max_length THEN Fail(c, "OutOfRange")
             ELSE IF c1.start_offset # 0 THEN read_block(c1, "lead")
             ELSE write_loop(c1)

\* readFrame / readPage has returned data to read() or write()
read_block_return(c, data) ==
    CASE c.ret = "read" -> read_got(c, data)
      [] c.ret = "lead" ->
           write_loop([c EXCEPT !.data = PyTo(data, c.start_offset) \o @])
      [] c.ret = "trail" ->
           write_block(c, c.data \o PyFrom(data, Len(c.data)), "last")

\* writeFrame / writePage has returned to write()
write_block_return(c) ==
    IF c.ret = "loop" THEN write_loop([c EXCEPT !.current_block = @ + 1])
    ELSE Finish(c, <<>>)

\* ------------------------------------------------------------ exchanges
\* the command the call is about to send
PendingCommand(c) ==
    CASE c.pc = "getCardType" -> getCardType_cmd
      [] c.pc = "auth" -> authenticate_cmd(c, c.astep).val
      [] c.pc = "readFrame" -> readFrame_cmd(c.current_block)
      [] c.pc = "readPage" -> readPage_cmd(c.current_block)
      [] c.pc = "writeFrame" -> writeFrame_cmd(c.current_block, c.to_write).val
      [] c.pc = "writePage" -> writePage_cmd(c.current_block, c.to_write).val

\* the driver reads the response packets q of the pending command and
\* runs up to its next command or to the end of the call
Continue(c, q) ==
    CASE c.pc = "getCardType" ->
           LET r == getCardType_res(q)
           IN  IF r.err # "" THEN Fail(c, r.err)
               ELSE IF c.op = "read" THEN read_geometry(c, r.val)
               ELSE write_geometry(c, r.val)
      [] c.pc = "auth" -> authenticate_step(c, q)
      [] c.pc = "readFrame" ->
           LET r == readFrame_res(_longResponseRead(q))
           IN  IF r.err # "" THEN Fail(c, r.err) ELSE read_block_return(c, r.val)
      [] c.pc = "readPage" ->
           LET r == readPage_res(_longResponseRead(q))
           IN  IF r.err # "" THEN Fail(c, r.err) ELSE read_block_return(c, r.val)
      [] c.pc = "writeFrame" ->
           LET r == writeFrame_res(_longResponseRead(q), c.current_block, c.to_write)
           IN  IF r.err # "" THEN Fail(c, r.err) ELSE write_block_return(c)
      [] c.pc = "writePage" ->
           LET r == writePage_res(q)
           IN  IF r.err # "" THEN Fail(c, r.err) ELSE write_block_return(c)

\* a driver that does not wait for the response of a short command
BulkReads_long_only(c, q) ==
    IF c.pc \in {"getCardType", "writePage"} THEN 0
    ELSE _longResponseRead(q).reads

\* the bulk reads the driver makes of the response packets q of its
\* pending command
BulkReads(c, q) ==
    IF c.pc \in {"getCardType", "writePage"}
    THEN (IF q = <<>> THEN 0 ELSE 1)
    ELSE _longResponseRead(q).reads

\* what the adapter did: ev is the kind of its answer; "fault" is a packet
\* without the response marker, "badstatus" a status the command does not
\* expect
Observe(o, ev) ==
    [o EXCEPT !.fault = @ \/ ev \in {"fault", "badstatus"},
              !.rejected = @ \/ ev = "reject",
              !.expiries = IF ev = "expiry" THEN @ + 1 ELSE @,
              !.afAt5 = IF ev = "timeout" THEN Min(@ + 1, MaxTimeouts) ELSE @,
              !.last = ev]

\* One command exchange: the bulk write of the pending command, the
\* adapter's answer, the bulk reads of the response, and the driver's code
\* up to the next command.  The adapter gives an answer of one of the
\* kinds evs.
Exchange(evs) ==
    /\ call.pc \notin {"idle", "done"}
    /\ LET cmd == PendingCommand(call)
       IN  \E ans \in DeviceAnswers(cmd, cardType, stored, authed, obs.expiries) :
             /\ ans.ev \in evs
             /\ call' = Continue(call, ans.pkts)
             /\ authed' = ans.authed
             /\ stored' = ans.stored
             /\ obs' = [Observe(obs, ans.ev) EXCEPT
                            !.reads = BulkReads(call, ans.pkts),
                            !.reported =
                                IF CmdTag(cmd) = <<64>> /\ ans.ev = "nominal"
                                THEN cardType ELSE @,
                            !.issued =
                                IF CmdTag(cmd) = <<129, 240, 4>>
                                   /\ ans.ev = "nominal"
                                THEN IssuedSeed(ans.pkts) ELSE @]
             /\ log' = IF obs.afAt5 < MaxTimeouts THEN Append(log, CmdTag(cmd))
                       ELSE log
    /\ UNCHANGED <<cardType, wire>>

\* an adapter that may garble an answer or reject the handshake, and
\* keeps its timing
SteadyExchange == Exchange({"nominal", "fault", "badstatus", "reject"})
\* an adapter that may also time out the handshake and drop an established
\* authentication
RoughExchange ==
    Exchange({"nominal", "fault", "badstatus", "reject", "timeout", "expiry"})

\* ------------------------------------------------------------ public calls
\* the sampled arguments: offsets and lengths near the block edges of the
\* first and the last block and at the end of the card
Geometry(t) == IF t = PS2_CARD_TYPE THEN PS2_CARD_TYPE ELSE PS1_CARD_TYPE
InBlock(bs) == (0..EdgeSlack) \cup ((bs - EdgeSlack)..(bs - 1))
Offsets(t) ==
    LET bs == _getPageSize(Geometry(t))
        total == _getSize(Geometry(t))
    IN  {b * bs + d : b \in {0, total \div bs - 1}, d \in InBlock(bs)}
        \cup (total..(total + EdgeSlack))
Lengths(t) ==
    LET bs == _getPageSize(Geometry(t))
    IN  {q * bs + d : q \in 0..(MaxSpan - 1), d \in InBlock(bs)}
        \cup {MaxSpan * bs}
\* the bytes a caller writes: none of them is a byte of a fresh card
WriteData(n) == [j \in 1..n |-> 251 + (j % 5)]

\* a new call may start when no call is in progress
Idle == call.pc = "idle"

NewCall(op, offset, length, data) ==
    [NoCall EXCEPT !.op = op, !.offset = offset, !.length = length,
                   !.data = data, !.stored0 = stored]

\* read(offset, length) is called; it first asks for the card type
read ==
    /\ Idle
    /\ \E offset \in Offsets(cardType), length \in Lengths(cardType) :
         call' = [NewCall("read", offset, length, <<>>) EXCEPT
                     !.pc = "getCardType",
                     !.follows = IF call.prev = <<offset, length>>
                                 THEN <<WriteData(length)>> ELSE <<>>]
    /\ log' = <<>>
    /\ obs' = NoObs
    /\ UNCHANGED <<cardType, stored, authed, wire>>

\* write(offset, data) is called; it first asks for the card type
write ==
    /\ Idle
    /\ \E offset \in Offsets(cardType), length \in Lengths(cardType) :
         call' = [NewCall("write", offset, length, WriteData(length)) EXCEPT
                     !.pc = "getCardType"]
    /\ log' = <<>>
    /\ obs' = NoObs
    /\ UNCHANGED <<cardType, stored, authed, wire>>

\* authenticate() is called
authenticate ==
    /\ Idle
    /\ call' = authenticate_enter([NewCall("authenticate", 0, 0, <<>>) EXCEPT
                                      !.after = "top"])
    /\ log' = <<>>
    /\ obs' = NoObs
    /\ UNCHANGED <<cardType, stored, authed, wire>>

\* the call has returned or raised; the caller goes on.  What is kept of
\* it is whether it was a write that returned normally.
Return ==
    /\ call.pc = "done"
    /\ call' = [NoCall EXCEPT !.prev = IF call.op = "write" /\ call.outcome = "ok"
                                       THEN <<call.offset, call.length>>
                                       ELSE <<>>]
    /\ log' = <<>>
    /\ obs' = NoObs
    /\ UNCHANGED <<cardType, stored, authed, wire>>

CardTypes == {0, 1, 2, 3}

Init ==
    /\ call = NoCall
    /\ cardType \in CardTypes
    /\ stored = <<>>
    /\ authed \in BOOLEAN
    /\ log = <<>>
    /\ obs = NoObs
    /\ wire = NoWire

\* every public call, against an adapter that keeps its timing
Next == read \/ write \/ authenticate \/ Return \/ SteadyExchange

Spec == Init /\ [][Next]_vars

\* authenticate() against any adapter
NextRough == authenticate \/ Return \/ RoughExchange

SpecRough == Init /\ [][NextRough]_vars

\* the driver never waits: a call in progress always makes its next exchange
FairSpecRough == SpecRough /\ WF_vars(RoughExchange)

\* the card in the adapter is taken out or changed, between calls or
\* during one
swap ==
    /\ \E t \in CardTypes \ {cardType} : cardType' = t
    /\ stored' = <<>>
    /\ UNCHANGED <<call, authed, log, obs, wire>>

\* an adapter that answers every command as expected
NominalExchange == Exchange({"nominal"})

\* read and write while cards come and go
NextSwap == read \/ write \/ Return \/ swap \/ NominalExchange

SpecSwap == Init /\ [][NextSwap]_vars

\* ------------------------------------------------------------ long responses
\* The adapter sends a payload of n bytes as a first packet (marker,
\* Success, length, the first `first` bytes) and continuation packets whose
\* sizes alternate between a and b.
Payload(n) == [i \in 1..n |-> (7 * i) % 256]
SplitOffset(j, a, b) == (j \div 2) * (a + b) + (j % 2) * a
SplitResponse(n, first, a, b) ==
    LET payload == Payload(n)
        rem == n - first
        m == CHOOSE k \in 0..rem :
                 /\ SplitOffset(k, a, b) >= rem
                 /\ k > 0 => SplitOffset(k - 1, a, b) < rem
    IN  << <<RESPONSE_CODE, RESPONSE_STATUS_SUCCES>> \o PackLE16(n)
              \o SubSeq(payload, 1, first) >>
        \o [j \in 1..m |->
               SubSeq(payload, first + SplitOffset(j - 1, a, b) + 1,
                      Min(first + SplitOffset(j, a, b), n))]

\* the sampled payload lengths: around the packet edges, and the first
\* length whose 16 bit encoding has its top bit set
PayloadLengths ==
    {0, 1} \cup {BULK_READ_LENGTH * k - 4 + d : k \in 1..MaxPackets, d \in {-1, 0, 1}}
FirstChunks(n) == {f \in {0, 1, BULK_READ_LENGTH - 5, BULK_READ_LENGTH - 4} : f <= n}
ChunkSizes == {BULK_READ_LENGTH \div 2, BULK_READ_LENGTH - 1, BULK_READ_LENGTH}

InitCodec ==
    /\ call = NoCall
    /\ cardType = 0
    /\ stored = <<>>
    /\ authed = FALSE
    /\ log = <<>>
    /\ obs = NoObs
    /\ \/ \E n \in PayloadLengths, a \in ChunkSizes, b \in ChunkSizes :
            \E first \in FirstChunks(n) :
               wire = [NoWire EXCEPT !.pc = "sent", !.n = n,
                                     !.pkts = SplitResponse(n, first, a, b)]
       \/ wire = [NoWire EXCEPT !.pc = "sent", !.n = SIGNED_LENGTH_LIMIT,
                                 !.pkts = SplitResponse(SIGNED_LENGTH_LIMIT,
                                              BULK_READ_LENGTH - 4,
                                              BULK_READ_LENGTH,
                                              BULK_READ_LENGTH)]

\* _longResponseRead() reads the response
ReceiveLong ==
    /\ wire.pc = "sent"
    /\ LET lr == _longResponseRead(wire.pkts)
       IN  wire' = [wire EXCEPT !.pc = "received", !.err = lr.err,
                                !.code = lr.code, !.data = lr.data,
                                !.reads = lr.reads]
    /\ UNCHANGED <<call, cardType, stored, authed, log, obs>>

NextCodec == ReceiveLong

SpecCodec == InitCodec /\ [][NextCodec]_vars

\* ------------------------------------------------------------ properties
Done == call.pc = "done"
KnownCard == cardType \in {PS1_CARD_TYPE, PS2_CARD_TYPE}
IsIO == call.op \in {"read", "write"}
\* the adapter has answered every command of the call as expected and has
\* accepted the handshake
Nominal == ~obs.fault /\ ~obs.rejected /\ obs.expiries = 0
InRange == KnownCard /\ call.offset + call.length <= _getSize(cardType)
ProbeTag == <<129, 17>>
TypeTag == <<64>>

\* C1: read(offset, length) in range (length 0 and the end of the card
\* included), against an adapter that returns the stored blocks, returns
\* exactly length bytes.
C1_ReadReturnsLength ==
    (Done /\ call.op = "read" /\ InRange /\ Nominal)
        => (call.outcome = "ok" /\ Len(call.retval) = call.length)

\* C2: write(offset, data) in range completes, and the read(offset,
\* len(data)) that follows it returns data.
C2_RoundTrip ==
    /\ (Done /\ call.op = "write" /\ InRange /\ Nominal) => call.outcome = "ok"
    /\ (Done /\ call.op = "read" /\ call.follows # <<>> /\ Nominal)
           => (call.outcome = "ok" /\ call.retval = call.follows[1])

Unaligned ==
    /\ KnownCard
    /\ \/ call.offset % _getPageSize(cardType) # 0
       \/ (call.offset + call.length) % _getPageSize(cardType) # 0
IsBlockWrite(tag) == Len(tag) = 3 /\ (tag[2] = 87 \/ tag[1] = 87)

C4_OutOfRange ==
    IsIO =>
        /\ (Done /\ KnownCard /\ ~InRange /\ ~obs.fault)
               => call.outcome = "OutOfRange"
        /\ call.outcome = "OutOfRange"
               => (Done /\ ~InRange /\ log = <<TypeTag>>
                   /\ stored = call.stored0)
        /\ (KnownCard /\ call.offset + call.length = _getSize(cardType))
               => call.outcome # "OutOfRange"

\* C4 witness: a read of a PS2 card past its end has failed
C4_Witness ==
    /\ Done /\ call.op = "read" /\ cardType = PS2_CARD_TYPE
    /\ call.offset + call.length > PS2_CARD_SIZE
    /\ call.outcome = "OutOfRange"

\* C5: with no card or an unknown card, read and write fail with the
\* unknown card error and the type detection is the only command sent.
C5_UnknownCard ==
    IsIO =>
        /\ (Done /\ ~KnownCard /\ ~obs.fault) => call.outcome = "UnknownCard"
        /\ call.outcome = "UnknownCard"
               => (Done /\ ~KnownCard /\ log = <<TypeTag>>
                   /\ stored = call.stored0)

\* C5 witness: a write with an unknown card in the adapter has failed
C5_Witness ==
    /\ Done /\ call.op = "write" /\ cardType = 3
    /\ call.outcome = "UnknownCard"

\* the commands of a handshake pass up to the acknowledgement step
RestartPrefix ==
    << ProbeTag, <<129, 243>>, <<129, 247>>, <<129, 240, 0>>, <<129, 240, 1>>,
       <<129, 240, 2>>, <<129, 240, 3>>, <<129, 240, 4>>, <<129, 240, 5>> >>

\* C6: when the adapter times out the acknowledgement step k times and
\* then lets the handshake succeed, authenticate() succeeds after exactly
\* k restarts, and each pass, abandoned or not, starts over with the
\* isAuthenticated() probe and the steps 0x81F3, 0x81F7, 0x81F0 seq 0..5.
C6_RestartsOnTimeout ==
    (call.op = "authenticate" /\ obs.afAt5 < MaxTimeouts) =>
        /\ call.restarts = obs.afAt5
        /\ (Done /\ Nominal) => call.outcome = "ok"
        /\ (Done /\ Nominal /\ Len(log) > 1) =>
              \A n \in 0..obs.afAt5 :
                 SubSeq(log, 9 * n + 1, 9 * n + 9) = RestartPrefix

\* C6 witness: authenticate() has succeeded after one timeout
C6_Witness ==
    /\ Done /\ call.op = "authenticate" /\ call.outcome = "ok"
    /\ obs.afAt5 = 1 /\ call.restarts = 1 /\ Nominal

\* C7: authenticate() always terminates.
C7_AuthenticateTerminates ==
    (call.op = "authenticate" /\ call.pc = "auth") ~> Done

\* C8: when the first isAuthenticated() of authenticate() answers true,
\* authenticate() returns at once: that probe is the only command sent and
\* the answer-computing collaborator is not called.
C8_AlreadyAuthenticated ==
    [][(/\ call.op = "authenticate" /\ call.pc = "auth" /\ log = <<>>
        /\ obs'.last = "nominal" /\ authed')
          => (/\ call'.pc = "done" /\ call'.outcome = "ok"
              /\ log' = <<ProbeTag>> /\ call'.authCalls = 0)]_vars

\* C8 witness: authenticate() has returned after its first probe
C8_Witness ==
    /\ Done /\ call.op = "authenticate" /\ call.outcome = "ok"
    /\ log = <<ProbeTag>>

\* the last command sent is the isAuthenticated() that follows 0x8126
AfterVerify ==
    /\ call.op = "authenticate"
    /\ Len(log) >= 2
    /\ log[Len(log)] = ProbeTag
    /\ log[Len(log) - 1] = <<129, 38>>

\* C9: when the isAuthenticated() that follows the finalizing probes
\* answers true, authenticate() has returned with success: it sends no
\* further command.
C9_VerifiedIsTerminal ==
    (AfterVerify /\ Nominal /\ obs.last = "nominal" /\ authed)
        => (Done /\ call.outcome = "ok")

\* C10: when the isAuthenticated() that follows the finalizing probes
\* answers false, authenticate() fails at once with the authentication
\* error, having sent nothing after that probe.
C10_VerifyFalseIsFatal ==
    [][(/\ call.op = "authenticate" /\ call.pc = "auth"
        /\ call.astep = VerifyStep
        /\ obs'.last \in {"nominal", "expiry"} /\ ~authed')
          => (/\ call'.pc = "done"
              /\ call'.outcome = "AuthenticationFailed"
              /\ log' \in {log, Append(log, ProbeTag)})]_vars

\* C10 witness: the handshake ran to its end and the adapter rejected it
C10_Witness ==
    /\ Done /\ call.op = "authenticate"
    /\ call.outcome = "AuthenticationFailed"
    /\ obs.rejected
    /\ Len(log) >= 2 /\ log[Len(log) - 1] = <<129, 38>>

\* C11: in every operation, when the first packet of a response does not
\* begin with the response marker, the call ends there with the framing
\* error: that packet is the only one read for the command and the call
\* sends nothing more.
C11_FramingErrorIsFatal ==
    [][(call.pc \notin {"idle", "done"} /\ obs'.last = "fault")
          => (/\ call'.pc = "done"
              /\ call'.outcome = "FramingError"
              /\ obs'.reads = 1)]_vars

\* C11 witness: a handshake has been cut by a packet without the marker
C11_Witness ==
    /\ Done /\ call.op = "authenticate" /\ call.outcome = "FramingError"
    /\ obs.last = "fault" /\ Len(log) > 5

\* C12: for every declared payload length and every split of the payload
\* over the first packet and continuation packets, _longResponseRead
\* returns Success and the payload byte for byte, having read every
\* packet of the response.
C12_Reassembly ==
    wire.pc = "received"
        => (/\ wire.err = ""
            /\ wire.code = <<RESPONSE_STATUS_SUCCES>>
            /\ wire.data = Payload(wire.n)
            /\ wire.reads = Len(wire.pkts))

\* C13: during authenticate(), a status other than Success that answers
\* a step other than isAuthenticated() and 0x81F0 seq 5 ends the call at
\* once with a protocol error.
C13_StatusIsNeverTolerated ==
    [][(/\ call.op = "authenticate" /\ call.pc = "auth"
        /\ CmdTag(PendingCommand(call)) \notin {ProbeTag, <<129, 240, 5>>}
        /\ obs'.last = "badstatus")
          => (call'.pc = "done" /\ call'.outcome = "AssertionError")]_vars

IsPageCommand(tag) == Len(tag) = 3 /\ tag[1] \in {82, 87}

\* C14: a page command is sent only right after an isAuthenticated() of
\* the same call that the adapter answered true: the command before every
\* page command is that probe, and a call about to send a page command has
\* just had the probe answered true.
C14_PageNeedsAuthentication ==
    /\ call.pc \in {"readPage", "writePage"}
           => (/\ log # <<>> /\ log[Len(log)] = ProbeTag
               /\ obs.last = "nominal" /\ authed)
    /\ \A k \in 1..Len(log) :
           IsPageCommand(log[k]) => (k > 1 /\ log[k - 1] = ProbeTag)

\* C14 witness: a read of a PS2 card is about to send its second page read
C14_Witness ==
    /\ call.op = "read" /\ call.pc = "readPage"
    /\ \E k \in 1..Len(log) : IsPageCommand(log[k])

\* the positions of log that hold a frame write or a page write
BlockWrites == {k \in 1..Len(log) : IsBlockWrite(log[k])}

\* C15: the write of one whole block (writeFrame on a PS1 card, writePage
\* on a PS2 card whose adapter is authenticated) sends exactly one block
\* write command, for that block, and returns normally when the adapter
\* accepts it.
C15_OneBlockWrite ==
    (/\ Done /\ call.op = "write" /\ InRange /\ Nominal
     /\ call.offset % _getPageSize(cardType) = 0
     /\ call.length = _getPageSize(cardType))
        => (/\ call.outcome = "ok"
            /\ Cardinality(BlockWrites) = 1
            /\ \A k \in BlockWrites :
                   log[k][3] = call.offset \div _getPageSize(cardType))

FullPass ==
    << <<129, 243>>, <<129, 247>> >>
    \o [i \in 1..21 |-> <<129, 240, i - 1>>]
    \o << <<129, 40>>, <<129, 39>>, <<129, 38>> >>
InFullPass(tag) == \E j \in 1..Len(FullPass) : FullPass[j] = tag
PassIndex(tag) == CHOOSE j \in 1..Len(FullPass) : FullPass[j] = tag
\* which 0x81F0 steps carry what: 9 bytes to the host, an answer block
PassRecvSeqs == {1, 2, 4, 15, 17, 19}
AnswerNo(seq) == CASE seq = 6 -> 1 [] seq = 7 -> 2 [] seq = 11 -> 3

\* C17: the commands of a handshake attempt follow the order of FullPass,
\* each attempt starting at 0x81F3 after an isAuthenticated(); the probe
\* is sent again only after 0x8126, after the acknowledgement step or
\* after itself; the 0x81F0 steps have the kind their sequence number
\* calls for; an answer block is what the collaborator computed from the
\* random number issued in the same attempt, and the first one is sent
\* only after the acknowledgement step has succeeded.
C17_HandshakeOrder ==
    call.op = "authenticate" =>
        /\ \A k \in 1..Len(log) :
              log[k] # ProbeTag =>
                 /\ k > 1
                 /\ InFullPass(log[k])
                 /\ IF log[k - 1] = ProbeTag THEN log[k] = FullPass[1]
                    ELSE PassIndex(log[k]) = PassIndex(log[k - 1]) + 1
        /\ \A k \in 2..Len(log) :
              log[k] = ProbeTag
                  => log[k - 1] \in {ProbeTag, <<129, 38>>, <<129, 240, 5>>}
        /\ (call.pc = "auth" /\ obs.afAt5 < MaxTimeouts) =>
              LET cmd == PendingCommand(call)
                  tag == CmdTag(cmd)
                  pl == LongPayload(cmd)
              IN  (Len(tag) = 3 /\ tag[2] = 240) =>
                     /\ tag[3] \in {6, 7, 11} =>
                           /\ obs.issued # <<>>
                           /\ pl = <<129, 240, tag[3]>>
                                    \o Authenticator(obs.issued)[AnswerNo(tag[3])]
                                    \o Zeros(2)
                     /\ tag[3] = 6 =>
                           /\ obs.last = "nominal"
                           /\ log[Len(log)] = <<129, 240, 5>>
                     /\ tag[3] \in PassRecvSeqs
                           => pl = <<129, 240, tag[3]>> \o Zeros(11)
                     /\ tag[3] \notin PassRecvSeqs \cup {6, 7, 11}
                           => pl = <<129, 240, tag[3]>> \o Zeros(2)

\* C17 witness: authenticate() has succeeded after one whole attempt
C17_Witness ==
    /\ Done /\ call.op = "authenticate" /\ call.outcome = "ok" /\ Nominal
    /\ obs.afAt5 = 0
    /\ Len(log) = Len(FullPass) + 3

IsBlockRead(tag) == Len(tag) = 3 /\ (tag[2] = 82 \/ tag[1] = 82)
\* the positions of log that hold a frame read or a page read
BlockReads == {k \in 1..Len(log) : IsBlockRead(log[k])}
\* the bytes [lo, hi) of the card
CardBytes(lo, hi, bs) ==
    [i \in 1..(hi - lo) |->
        BlockOf(stored, (lo + i - 1) \div bs, bs)[((lo + i - 1) % bs) + 1]]

\* C18: a read(offset, length) in range with length > 0 reads the blocks
\* offset div block .. (offset + length - 1) div block, each once and in
\* ascending order, and returns the bytes [offset, offset + length) of the
\* card.
C18_StraddlingRead ==
    (call.op = "read" /\ InRange /\ call.length > 0) =>
        LET bs == _getPageSize(cardType)
            first == call.offset \div bs
            last == (call.offset + call.length - 1) \div bs
        IN  /\ \A k \in BlockReads :
                  /\ log[k][3] = first + Cardinality({j \in BlockReads : j < k})
                  /\ log[k][3] <= last
            /\ (Done /\ Nominal) =>
                  /\ call.outcome = "ok"
                  /\ Cardinality(BlockReads) = last - first + 1
                  /\ call.retval
                        = CardBytes(call.offset, call.offset + call.length, bs)

\* C18 witness: a read that starts and ends inside blocks has returned
\* the bytes of more than one page
C18_Witness ==
    /\ Done /\ call.op = "read" /\ call.outcome = "ok"
    /\ cardType = PS2_CARD_TYPE
    /\ call.start_offset # 0 /\ call.result_len > call.length
    /\ Cardinality(BlockReads) >= 2

\* C19: a write(offset, data) in range with data writes the blocks that
\* meet [offset, offset + len(data)), each once and in ascending order,
\* and reads no block when it starts and ends on block edges.
C19_WriteBlockSequence ==
    (Done /\ call.op = "write" /\ InRange /\ Nominal /\ call.length > 0) =>
        LET bs == _getPageSize(cardType)
            first == call.offset \div bs
            last == (call.offset + call.length - 1) \div bs
        IN  /\ Cardinality(BlockWrites) = last - first + 1
            /\ \A k \in BlockWrites :
                  log[k][3] = first + Cardinality({j \in BlockWrites : j < k})
            /\ (call.offset % bs = 0 /\ (call.offset + call.length) % bs = 0)
                  => BlockReads = {}

\* C20: every read and write asks for the card type once, as its first
\* command, and takes its block size, its total size and its block
\* commands from that answer alone, whatever card is in the adapter
\* before the call or later in the call.
C20_TypeDetectedPerCall ==
    IsIO =>
        /\ log # <<>> => log[1] = TypeTag
        /\ \A k \in 2..Len(log) : log[k] # TypeTag
        /\ call.pc \in {"readFrame", "writeFrame"}
              => obs.reported = PS1_CARD_TYPE
        /\ call.pc \in {"auth", "readPage", "writePage"}
              => obs.reported = PS2_CARD_TYPE
        /\ \A k \in 2..Len(log) :
              IF obs.reported = PS1_CARD_TYPE
              THEN Len(log[k]) = 3 /\ log[k][1] = 129 /\ log[k][2] \in {82, 87}
              ELSE obs.reported = PS2_CARD_TYPE /\ ~(log[k][1] = 129 /\ log[k][2] \in {82, 87})
        /\ (call.pc \notin {"getCardType", "done"}
            \/ (Done /\ call.outcome \notin {"UnknownCard", "OutOfRange"})) =>
              /\ obs.reported \in {PS1_CARD_TYPE, PS2_CARD_TYPE}
              /\ call.card_type = obs.reported
              /\ call.block_length = _getPageSize(obs.reported)
              /\ call.offset + call.length <= _getSize(obs.reported)
              /\ \A k \in BlockReads \cup BlockWrites :
                    log[k][3] >= call.offset \div _getPageSize(obs.reported)
        /\ call.outcome = "UnknownCard"
              => obs.reported \notin {PS1_CARD_TYPE, PS2_CARD_TYPE}
        /\ call.outcome = "OutOfRange"
              => /\ obs.reported \in {PS1_CARD_TYPE, PS2_CARD_TYPE}
                 /\ call.offset + call.length > _getSize(obs.reported)

\* C20 witness: a read has returned the pages of the PS2 card it detected
\* although a PS1 card is in the adapter by now
C20_Witness ==
    /\ Done /\ call.op = "read" /\ call.outcome = "ok"
    /\ obs.reported = PS2_CARD_TYPE /\ cardType = PS1_CARD_TYPE
    /\ Cardinality(BlockReads) >= 2

====
